---- MODULE Spec2Model ----
(***************************************************************************)
(* Model of garage_door_server.py: the garage status / control functions   *)
(* and the two HTTP resources (GET /garage/status, POST /sns-callback).    *)
(*                                                                         *)
(* Python values are represented as follows.                               *)
(*   - a dict is a function whose domain is its key set (built with :> @@) *)
(*   - a str used only as a token is a TLA+ string; where the code slices  *)
(*     or re-cases a str, the string is taken through Ord to its sequence  *)
(*     of code points and the operation is computed on that sequence       *)
(*   - a formatted message is the sequence of its fragments                *)
(*   - a JSON text is [json |-> TRUE, value |-> v]; a text that does not   *)
(*     parse is [json |-> FALSE, value |-> <<>>]                           *)
(*   - a timestamp is the token "NOW"                                      *)
(* Every operation leaves a record of what it did in the variable last:    *)
(* its return value, the exception it raised, and the calls it made on the *)
(* external collaborators (GPIO.input, GPIO.output, time.sleep,            *)
(* requests.get, print, queue.send_message).                               *)
(***************************************************************************)
EXTENDS Integers, Sequences, FiniteSets, TLC

VARIABLES
    gpio_in,        \* level currently presented on each sensor pin
    relay_pulses,   \* number of HIGH/LOW pulses driven so far on each relay pin
    last,           \* record of the last completed operation
    req             \* the request each thread is handling, when requests overlap

vars == <<gpio_in, relay_pulses, last, req>>

----------------------------------------------------------------------------
\* Bounds of the model

\* raw values GPIO.input can return are 0..MaxRaw; values above 1 are anomalous
MaxRaw == 2
\* inbound MessageIds have between 0 and MaxIdLen characters
MaxIdLen == 5
\* cap on the pulse counter of each relay pin
MaxPulses == 2

----------------------------------------------------------------------------
\* Strings

\* code points of the strings the model uses as door names
Ord(s) ==
    CASE s = "LEFT"   -> <<76, 69, 70, 84>>
      [] s = "RIGHT"  -> <<82, 73, 71, 72, 84>>
      [] s = "left"   -> <<108, 101, 102, 116>>
      [] s = "MIDDLE" -> <<77, 73, 68, 68, 76, 69>>
      [] s = "ALL"    -> <<65, 76, 76>>
      [] s = "All"    -> <<65, 108, 108>>
      [] s = "all"    -> <<97, 108, 108>>

\* str.lower() on code points
Lower(cs) == [i \in DOMAIN cs |-> IF cs[i] \in 65..90 THEN cs[i] + 32 ELSE cs[i]]

\* str.upper() on code points
Upper(cs) == [i \in DOMAIN cs |-> IF cs[i] \in 97..122 THEN cs[i] - 32 ELSE cs[i]]

\* str.capitalize() on code points: first character upper, the rest lower
Capitalize(cs) == [i \in DOMAIN cs |-> IF i = 1 THEN Upper(cs)[i] ELSE Lower(cs)[i]]

\* a < b for two strings given by their code points (Python str ordering)
StrLess(a, b) ==
    \E i \in 1..(Len(a) + 1) :
        /\ i <= Len(b)
        /\ \A j \in 1..(i - 1) : a[j] = b[j]
        /\ (i = Len(a) + 1 \/ a[i] < b[i])

\* the keys in descending str order
SortedDesc(keys) ==
    CHOOSE s \in [1..Cardinality(keys) -> keys] :
        \A i, j \in DOMAIN s : i < j => StrLess(Ord(s[j]), Ord(s[i]))

\* sorted(keys): the keys in ascending str order
Sorted(keys) ==
    CHOOSE s \in [1..Cardinality(keys) -> keys] :
        \A i, j \in DOMAIN s : i < j => StrLess(Ord(s[i]), Ord(s[j]))

\* s[:n]
Slice(s, n) == SubSeq(s, 1, IF Len(s) < n THEN Len(s) ELSE n)

\* json.dumps / json.loads
JsonDumps(v) == [json |-> TRUE, value |-> v]
JsonParses(t) == t.json
JsonLoads(t) == t.value
NotJson == [json |-> FALSE, value |-> <<>>]

----------------------------------------------------------------------------
\* Module-level data

RELAY_PIN_MAPPING == ("LEFT" :> 27) @@ ("RIGHT" :> 22)
\* the sensor table with the two doors' pins exchanged
GARAGE_SENSOR_MAPPING_Crossed == ("LEFT" :> 16) @@ ("RIGHT" :> 25)
GARAGE_SENSOR_MAPPING == ("LEFT" :> 25) @@ ("RIGHT" :> 16)
SORTED_KEYS == Sorted(DOMAIN RELAY_PIN_MAPPING)
hostname == "HOSTNAME"

RelayPins == {RELAY_PIN_MAPPING[d] : d \in DOMAIN RELAY_PIN_MAPPING}
SensorPins == {GARAGE_SENSOR_MAPPING[d] : d \in DOMAIN GARAGE_SENSOR_MAPPING}
RawValues == 0..MaxRaw

----------------------------------------------------------------------------
\* get_garage_status

StatusResult(status, error, reads) ==
    [status |-> status, error |-> error, reads |-> reads]

\* the classification with the two binary levels exchanged
ClassifySwapped(pin_result) ==
    IF pin_result = 1 THEN [status |-> "CLOSED", error |-> FALSE]
    ELSE IF pin_result = 0 THEN [status |-> "OPEN", error |-> FALSE]
    ELSE [status |-> "UNKNOWN", error |-> TRUE]

\* the classification of a raw pin level (the else branch of the try)
Classify(pin_result) ==
    IF pin_result = 0 THEN [status |-> "CLOSED", error |-> FALSE]
    ELSE IF pin_result = 1 THEN [status |-> "OPEN", error |-> FALSE]
    ELSE [status |-> "UNKNOWN", error |-> TRUE]

\* a status kept from an earlier call instead of read from the pin
get_garage_status_Cached(gpio, garage_name) ==
    IF garage_name \notin DOMAIN GARAGE_SENSOR_MAPPING
    THEN StatusResult("INVALID GARAGE NAME", TRUE, <<>>)
    ELSE StatusResult("CLOSED", FALSE, <<>>)

\* reads is the sequence of pins passed to GPIO.input during the call
get_garage_status(gpio, garage_name) ==
    IF garage_name \notin DOMAIN GARAGE_SENSOR_MAPPING
    THEN StatusResult("INVALID GARAGE NAME", TRUE, <<>>)
    ELSE LET pin == GARAGE_SENSOR_MAPPING[garage_name]
             c == Classify(gpio[pin])
         IN  StatusResult(c.status, c.error, <<pin>>)

----------------------------------------------------------------------------
\* control_garage

ControlResult(message, error, reads, writes, sleeps, printed) ==
    [message |-> message, error |-> error, reads |-> reads,
     writes |-> writes, sleeps |-> sleeps, printed |-> printed]

\* the two validation checks taken in the other order
ValidateActionFirst(garage_name, action) ==
    IF action \notin {"OPEN", "CLOSE"} THEN <<"INVALID ACTION">>
    ELSE IF garage_name \notin DOMAIN RELAY_PIN_MAPPING THEN <<"INVALID GARAGE_NAME">>
    ELSE <<>>

\* the two early returns: the message of the first failing check, <<>> if none
Validate(garage_name, action) ==
    IF garage_name \notin DOMAIN RELAY_PIN_MAPPING THEN <<"INVALID GARAGE_NAME">>
    ELSE IF action \notin {"OPEN", "CLOSE"} THEN <<"INVALID ACTION">>
    ELSE <<>>

\* the guard with its CLOSE branch lost
IdempotentRejectOpenOnly(current_garage_status, action) ==
    IF current_garage_status = "OPEN" /\ action = "OPEN"
    THEN <<"Trying to open garage that is already open">>
    ELSE <<>>

\* a guard that also refuses to act on a door whose position is not known
IdempotentRejectUnknown(current_garage_status, action) ==
    IF current_garage_status = "OPEN" /\ action = "OPEN"
    THEN <<"Trying to open garage that is already open">>
    ELSE IF current_garage_status = "CLOSED" /\ action = "CLOSE"
    THEN <<"Trying to close garage that is already closed">>
    ELSE IF current_garage_status = "UNKNOWN"
    THEN <<"Garage position is unknown">>
    ELSE <<>>

\* the if / elif of the guard: the reject message, <<>> when the else is taken
IdempotentReject(current_garage_status, action) ==
    IF current_garage_status = "OPEN" /\ action = "OPEN"
    THEN <<"Trying to open garage that is already open">>
    ELSE IF current_garage_status = "CLOSED" /\ action = "CLOSE"
    THEN <<"Trying to close garage that is already closed">>
    ELSE <<>>

\* a try body that sleeps again after a fault instead of raising
TriggerRelayRetry(relay_pin, interrupted) ==
    [writes |-> <<>>, sleeps |-> IF interrupted THEN 2 ELSE 1, raised |-> FALSE]

\* the try body: both GPIO.output calls are commented out, so it only sleeps;
\* interrupted says whether an exception is raised while it sleeps
TriggerRelay(relay_pin, interrupted) ==
    [writes |-> <<>>, sleeps |-> 1, raised |-> interrupted]

control_garage(gpio, garage_name, action, interrupted) ==
    LET invalid == Validate(garage_name, action)
    IN  IF invalid # <<>>
        THEN ControlResult(invalid, TRUE, <<>>, <<>>, 0, <<>>)
        ELSE
        LET st == get_garage_status(gpio, garage_name)
            reject == IdempotentReject(st.status, action)
        IN  IF reject # <<>>
            THEN ControlResult(reject, TRUE, st.reads, <<>>, 0, <<reject>>)
            ELSE
            LET relay_pin == RELAY_PIN_MAPPING[garage_name]
                t == TriggerRelay(relay_pin, interrupted)
                failed == <<"AN ERROR OCCURED WHILE TRIGGERING THE RELAY">>
                triggered == <<"TRIGGERED ", garage_name, " GARAGE TO ", action,
                               ". OLD POSITION: ", st.status>>
            IN  IF t.raised
                THEN ControlResult(failed, TRUE, st.reads, t.writes, t.sleeps, <<failed>>)
                ELSE ControlResult(triggered, FALSE, st.reads, t.writes, t.sleeps, <<>>)

\* number of complete HIGH-then-LOW pulses on pin in a sequence of GPIO.output calls
PulsesOn(writes, pin) ==
    Cardinality({i \in 1..(Len(writes) - 1) :
        /\ writes[i] = [pin |-> pin, level |-> "HIGH"]
        /\ writes[i + 1] = [pin |-> pin, level |-> "LOW"]})

----------------------------------------------------------------------------
\* Response formatting

\* limit_keys is <<>> for None and <<K>> for a list holding the keys K
NoLimit == <<>>

\* response if limit_keys is None else {k: response[k] for k in limit_keys if k in response}
FilterKeys(response, limit_keys) ==
    IF Len(limit_keys) = 0 THEN response
    ELSE [k \in (limit_keys[1] \cap DOMAIN response) |-> response[k]]

\* a return code that treats every status but OPEN as good
ReturnCodeNotOpen(garage_status) == IF garage_status # "OPEN" THEN "0" ELSE "2"

\* "0" if garage_status == "CLOSED" else "2"
ReturnCode(garage_status) == IF garage_status = "CLOSED" THEN "0" ELSE "2"

\* the list of doors a status query covers
ExpandNames(garage_name) ==
    IF Lower(Ord(garage_name)) = <<97, 108, 108>> THEN SORTED_KEYS ELSE <<garage_name>>

\* the body of the for loop: the record built for one door
OneResponse(one_garage, st, limit_keys) ==
    FilterKeys(
        ("plugin_output" :> <<"Garage is ", st.status>>)
        @@ ("service_description" :> <<Capitalize(Ord(one_garage)), " Garage Status">>)
        @@ ("hostname" :> hostname)
        @@ ("return_code" :> ReturnCode(st.status))
        @@ ("garage_name" :> one_garage)
        @@ ("status_time" :> "NOW")
        @@ ("status" :> st.status)
        @@ ("error" :> st.error),
        limit_keys)

RECURSIVE Concat(_)
\* the concatenation of a sequence of sequences
Concat(ss) == IF Len(ss) = 0 THEN <<>> ELSE Head(ss) \o Concat(Tail(ss))

\* ret is the JSON text returned, reads the GPIO.input calls made, in order
get_garage_json_status(gpio, garage_name, limit_keys) ==
    LET names == ExpandNames(garage_name)
        sts == [i \in DOMAIN names |-> get_garage_status(gpio, names[i])]
        response == [i \in DOMAIN names |-> OneResponse(names[i], sts[i], limit_keys)]
    IN  [ret |-> JsonDumps(response),
         reads |-> Concat([i \in DOMAIN names |-> sts[i].reads])]

\* ret is the JSON text returned, ctl the result and effects of the control_garage call
garage_control_json(gpio, garage_name, current_status, limit_keys, interrupted) ==
    LET ctl == control_garage(gpio, garage_name, current_status, interrupted)
        response == ("status_time" :> "NOW")
                    @@ ("status" :> ctl.message) @@ ("error" :> ctl.error)
    IN  [ret |-> JsonDumps(FilterKeys(response, limit_keys)), ctl |-> ctl]

----------------------------------------------------------------------------
\* What an operation did

Effects(ret, raised, reads, writes, sleeps, fetched, printed, published, reply, controls) ==
    [ret |-> ret,               \* <<v>> when v was returned, <<>> when an exception left
     raised |-> raised,         \* the exception that left the operation, "" if none
     reads |-> reads,           \* pins passed to GPIO.input
     writes |-> writes,         \* GPIO.output calls
     sleeps |-> sleeps,         \* number of time.sleep calls
     fetched |-> fetched,       \* URLs passed to requests.get
     printed |-> printed,       \* messages passed to print
     published |-> published,   \* payloads passed to queue.send_message
     reply |-> reply,           \* <<response>> at the publishing step, <<>> before it
     controls |-> controls]     \* argument pairs of the control_garage calls made

Raise(exception, printed) ==
    Effects(<<>>, exception, <<>>, <<>>, 0, <<>>, printed, <<>>, <<>>, <<>>)

----------------------------------------------------------------------------
\* GET /garage/status

\* the route declares no URL variable and get never consults the query
\* string, so garage_name always takes its default
GarageStatusResource_get(gpio, query) ==
    LET garage_name == "ALL"
        js == get_garage_json_status(gpio, garage_name, NoLimit)
    IN  Effects(<<("status" :> js.ret) @@ ("type" :> "STATUS")>>, "",
                js.reads, <<>>, 0, <<>>, <<>>, <<>>, <<>>, <<>>)

----------------------------------------------------------------------------
\* POST /sns-callback

\* message_id[:4]
ReplyId(message_id) == Slice(message_id, 4)

\* response_keys is bound nowhere in the module: evaluating the argument
\* limit_keys=response_keys raises NameError before the call is made
process_sns_message(gpio, data) ==
    IF "MessageId" \notin DOMAIN data THEN Raise("KeyError", <<>>)
    ELSE IF "Message" \notin DOMAIN data THEN Raise("KeyError", <<>>)
    ELSE IF ~JsonParses(data["Message"]) THEN Raise("JSONDecodeError", <<>>)
    ELSE
    LET message_id == data["MessageId"]
        raw_message == JsonLoads(data["Message"])
    IN  IF "type" \notin DOMAIN raw_message THEN Raise("KeyError", <<>>)
        ELSE IF "garage_name" \notin DOMAIN raw_message THEN Raise("KeyError", <<>>)
        ELSE IF raw_message["type"] = "STATUS" THEN Raise("NameError", <<>>)
        ELSE IF raw_message["type"] = "CONTROL"
        THEN IF "current_status" \notin DOMAIN raw_message
             THEN Raise("KeyError", <<>>)
             ELSE Raise("NameError", <<>>)
        ELSE
        LET return_message == ("status" :> "Invalid action passed") @@ ("error" :> TRUE)
            response == ("id" :> ReplyId(message_id))
        IN  Effects(<<"None">>, "", <<>>, <<>>, 0, <<>>,
                    <<<<"TEST publishing {}">>>>, <<>>, <<response>>, <<>>)

\* the SubscriptionConfirmation branch fetching the URL a second time
ConfirmTwice(url, fetch_ok) ==
    IF fetch_ok
    THEN Effects(<<"OK\n">>, "", <<>>, <<>>, 0, <<url, url>>, <<<<url>>>>, <<>>, <<>>, <<>>)
    ELSE Effects(<<>>, "ConnectionError", <<>>, <<>>, 0, <<url>>, <<<<url>>>>, <<>>, <<>>, <<>>)

\* the SubscriptionConfirmation branch: print the URL, requests.get it;
\* fetch_ok says whether requests.get returns or raises
Confirm(url, fetch_ok) ==
    IF fetch_ok
    THEN Effects(<<"OK\n">>, "", <<>>, <<>>, 0, <<url>>, <<<<url>>>>, <<>>, <<>>, <<>>)
    ELSE Effects(<<>>, "ConnectionError", <<>>, <<>>, 0, <<url>>, <<<<url>>>>, <<>>, <<>>, <<>>)

\* body is the JSON text of request.data
SNSCallbackResource_post(gpio, body, fetch_ok) ==
    IF ~JsonParses(body)
    THEN Effects(<<"OK\n">>, "", <<>>, <<>>, 0, <<>>,
                 <<<<"JSONDecodeError">>, <<"exception parsing {}">>>>, <<>>, <<>>, <<>>)
    ELSE
    LET data == JsonLoads(body)
    IN  IF "Type" \notin DOMAIN data THEN Raise("KeyError", <<>>)
        ELSE IF data["Type"] = "SubscriptionConfirmation" /\ "SubscribeURL" \in DOMAIN data
        THEN Confirm(data["SubscribeURL"], fetch_ok)
        ELSE IF data["Type"] = "Notification"
        THEN LET p == process_sns_message(gpio, data)
                 printed == <<<<"Message is {}">>>> \o p.printed
             IN  IF p.raised # ""
                 THEN [p EXCEPT !.printed = printed]
                 ELSE [p EXCEPT !.printed = printed, !.ret = <<"OK\n">>]
        ELSE Effects(<<"OK\n">>, "", <<>>, <<>>, 0, <<>>,
                     <<<<"Couldnt process message: {}">>>>, <<>>, <<>>, <<>>)

----------------------------------------------------------------------------
\* Inputs

GarageNames == {"LEFT", "RIGHT", "MIDDLE", "ALL", "all"}
ActionNames == {"OPEN", "CLOSE", "CLOSED", "open"}
LimitKeys == {NoLimit, <<{"garage_name", "status", "error", "message"}>>}
\* the garage_name query parameter of a GET: <<>> when absent
Queries == {<<>>} \cup {<<n>> : n \in GarageNames}
SubscribeURLs == {"https://sns/confirm"}
\* MessageIds shorter than, as long as and longer than the reply id
MessageIds == {[i \in 1..n |-> 96 + i] : n \in (MaxIdLen - 2)..MaxIdLen}

\* the dict d without key k
Drop(d, k) == [x \in DOMAIN d \ {k} |-> d[x]]

\* a dict with all its keys, and the same with any one key missing
OneMissing(d) == {d} \cup {Drop(d, k) : k \in DOMAIN d}

InnerMessages ==
    UNION {OneMissing(("type" :> t) @@ ("garage_name" :> g) @@ ("current_status" :> c)) :
        t \in {"STATUS", "CONTROL", "PING"},
        g \in {"LEFT", "MIDDLE"},
        c \in {"OPEN", "STOP"}}

MessageTexts == {NotJson} \cup {JsonDumps(m) : m \in InnerMessages}

NotificationEnvelopes ==
    {("Type" :> "Notification") @@ ("MessageId" :> id) @@ ("Message" :> msg) :
        id \in MessageIds, msg \in MessageTexts}

LifecycleEnvelopes ==
    {("Type" :> ty) @@ ("SubscribeURL" :> u)
     @@ ("MessageId" :> [i \in 1..MaxIdLen |-> 96 + i]) @@ ("Message" :> NotJson) :
        ty \in {"SubscriptionConfirmation", "UnsubscribeConfirmation"},
        u \in SubscribeURLs}

\* envelopes with one key missing
TruncatedEnvelopes ==
    UNION {OneMissing(e) : e \in LifecycleEnvelopes \cup
        {("Type" :> "Notification") @@ ("MessageId" :> [i \in 1..MaxIdLen |-> 96 + i])
         @@ ("Message" :> JsonDumps(("type" :> "PING") @@ ("garage_name" :> "LEFT")))}}

Envelopes == NotificationEnvelopes \cup LifecycleEnvelopes \cup TruncatedEnvelopes

Bodies == {NotJson} \cup {JsonDumps(e) : e \in Envelopes}

----------------------------------------------------------------------------
\* The state machine

NoEffects == Effects(<<>>, "", <<>>, <<>>, 0, <<>>, <<>>, <<>>, <<>>, <<>>)

Done(op, args, eff) == [op |-> op, args |-> args] @@ eff

\* relay_pulses after the GPIO.output calls writes
Pulsed(writes) == [p \in RelayPins |-> relay_pulses[p] + PulsesOn(writes, p)]

HasRoom == \A p \in RelayPins : relay_pulses[p] < MaxPulses

\* Requests in flight, for the interleavings of overlapping requests: control_garage
\* shares nothing with another request but the pins, so a request is split at
\* its one GPIO.input call

Threads == {"t1", "t2"}

\* a request thread with no request
IdleReq ==
    [pc |-> "idle",         \* "idle", "read" (past GPIO.input, before the guard), "done"
     op |-> "none",         \* "control" or "status"
     garage_name |-> "", action |-> "",
     level |-> 0,           \* pin_result, the level GPIO.input returned
     interrupted |-> FALSE, \* whether the try body raised
     message |-> <<>>, status |-> "", error |-> FALSE,
     reads |-> <<>>, writes |-> <<>>, sleeps |-> 0, printed |-> <<>>,
     raced |-> FALSE]       \* whether a request for the same door was between its
                            \* read and its guard while this one was

\* after setup_pins: no relay has been driven, the sensors show any level
Init ==
    /\ gpio_in \in [SensorPins -> RawValues]
    /\ relay_pulses = [p \in RelayPins |-> 0]
    /\ last = Done("none", <<>>, NoEffects)
    /\ req = [t \in Threads |-> IdleReq]

\* the environment: a door moves, or its sensor line floats
SensorChange(pin, level) ==
    /\ gpio_in[pin] # level
    /\ gpio_in' = [gpio_in EXCEPT ![pin] = level]
    /\ last' = Done("none", <<>>, NoEffects)
    /\ UNCHANGED <<relay_pulses, req>>

CallGetGarageStatus(garage_name) ==
    LET st == get_garage_status(gpio_in, garage_name)
    IN  /\ last' = Done("get_garage_status", [garage_name |-> garage_name],
                        Effects(<<[status |-> st.status, error |-> st.error]>>, "",
                                st.reads, <<>>, 0, <<>>, <<>>, <<>>, <<>>, <<>>))
        /\ UNCHANGED <<gpio_in, relay_pulses, req>>

CallControlGarage(garage_name, action, interrupted) ==
    LET c == control_garage(gpio_in, garage_name, action, interrupted)
    IN  /\ HasRoom
        /\ last' = Done("control_garage",
                        [garage_name |-> garage_name, action |-> action,
                         interrupted |-> interrupted],
                        Effects(<<[message |-> c.message, error |-> c.error]>>, "",
                                c.reads, c.writes, c.sleeps, <<>>, c.printed,
                                <<>>, <<>>, <<>>))
        /\ relay_pulses' = Pulsed(c.writes)
        /\ UNCHANGED <<gpio_in, req>>

CallGetGarageJsonStatus(garage_name, limit_keys) ==
    LET js == get_garage_json_status(gpio_in, garage_name, limit_keys)
    IN  /\ last' = Done("get_garage_json_status",
                        [garage_name |-> garage_name, limit_keys |-> limit_keys],
                        Effects(<<js.ret>>, "", js.reads, <<>>, 0, <<>>, <<>>,
                                <<>>, <<>>, <<>>))
        /\ UNCHANGED <<gpio_in, relay_pulses, req>>

CallGarageControlJson(garage_name, current_status, limit_keys, interrupted) ==
    LET r == garage_control_json(gpio_in, garage_name, current_status, limit_keys,
                                 interrupted)
    IN  /\ HasRoom
        /\ last' = Done("garage_control_json",
                        [garage_name |-> garage_name, current_status |-> current_status,
                         limit_keys |-> limit_keys, interrupted |-> interrupted],
                        Effects(<<r.ret>>, "", r.ctl.reads, r.ctl.writes, r.ctl.sleeps,
                                <<>>, r.ctl.printed, <<>>, <<>>,
                                <<<<garage_name, current_status>>>>))
        /\ relay_pulses' = Pulsed(r.ctl.writes)
        /\ UNCHANGED <<gpio_in, req>>

HttpGetStatus(query) ==
    LET e == GarageStatusResource_get(gpio_in, query)
    IN  /\ last' = Done("GET /garage/status", [query |-> query], e)
        /\ UNCHANGED <<gpio_in, relay_pulses, req>>

HttpPostSnsCallback(body, fetch_ok) ==
    LET e == SNSCallbackResource_post(gpio_in, body, fetch_ok)
    IN  /\ HasRoom
        /\ last' = Done("POST /sns-callback", [body |-> body, fetch_ok |-> fetch_ok], e)
        /\ relay_pulses' = Pulsed(e.writes)
        /\ UNCHANGED <<gpio_in, req>>

Next ==
    \/ \E pin \in SensorPins, level \in RawValues : SensorChange(pin, level)
    \/ \E n \in GarageNames : CallGetGarageStatus(n)
    \/ \E n \in GarageNames, a \in ActionNames, i \in BOOLEAN : CallControlGarage(n, a, i)
    \/ \E n \in GarageNames, k \in LimitKeys : CallGetGarageJsonStatus(n, k)
    \/ \E n \in GarageNames, a \in ActionNames, k \in LimitKeys, i \in BOOLEAN :
            CallGarageControlJson(n, a, k, i)
    \/ \E q \in Queries : HttpGetStatus(q)
    \/ \E b \in Bodies, ok \in BOOLEAN : HttpPostSnsCallback(b, ok)

Spec == Init /\ [][Next]_vars

----------------------------------------------------------------------------
\* Overlapping requests

\* the pins as the request read them: its own sensor at the level it was given
AsRead(r) == (GARAGE_SENSOR_MAPPING[r.garage_name] :> r.level) @@ gpio_in

\* control_garage up to and including its GPIO.input call
ControlEnter(t, garage_name, action) ==
    /\ req[t].pc = "idle"
    /\ LET c == control_garage(gpio_in, garage_name, action, FALSE)
           asked == [IdleReq EXCEPT !.op = "control", !.garage_name = garage_name,
                                    !.action = action]
       IN  IF Validate(garage_name, action) # <<>>
           THEN req' = [req EXCEPT ![t] =
                    [asked EXCEPT !.pc = "done", !.message = c.message,
                                  !.error = c.error, !.reads = c.reads,
                                  !.printed = c.printed]]
           ELSE req' = [req EXCEPT ![t] =
                    [asked EXCEPT !.pc = "read",
                                  !.level = gpio_in[GARAGE_SENSOR_MAPPING[garage_name]],
                                  !.reads = <<GARAGE_SENSOR_MAPPING[garage_name]>>]]
    /\ UNCHANGED <<gpio_in, relay_pulses, last>>

\* the other requests for the same door that have read and not yet decided
Overlapping(t) ==
    {u \in Threads \ {t} : /\ req[u].pc = "read"
                           /\ req[u].op = "control"
                           /\ req[u].garage_name = req[t].garage_name}

\* control_garage from the guard to its return, on the status it read
ControlAct(t, interrupted) ==
    /\ req[t].pc = "read"
    /\ HasRoom
    /\ LET r == req[t]
           c == control_garage(AsRead(r), r.garage_name, r.action, interrupted)
       IN  /\ req' = [u \in Threads |->
                    IF u = t
                    THEN [r EXCEPT !.pc = "done", !.interrupted = interrupted,
                                   !.status = get_garage_status(AsRead(r), r.garage_name).status,
                                   !.message = c.message, !.error = c.error,
                                   !.writes = c.writes, !.sleeps = c.sleeps,
                                   !.printed = c.printed,
                                   !.raced = r.raced \/ Overlapping(t) # {}]
                    ELSE IF u \in Overlapping(t)
                    THEN [req[u] EXCEPT !.raced = TRUE]
                    ELSE req[u]]
           /\ relay_pulses' = Pulsed(c.writes)
    /\ UNCHANGED <<gpio_in, last>>

\* get_garage_status, whole
StatusCall(t, garage_name) ==
    /\ req[t].pc = "idle"
    /\ LET st == get_garage_status(gpio_in, garage_name)
       IN  req' = [req EXCEPT ![t] =
                [IdleReq EXCEPT !.pc = "done", !.op = "status",
                                !.garage_name = garage_name,
                                !.status = st.status, !.error = st.error,
                                !.reads = st.reads]]
    /\ UNCHANGED <<gpio_in, relay_pulses, last>>

\* the response is sent and the thread is free again
Return(t) ==
    /\ req[t].pc = "done"
    /\ req' = [req EXCEPT ![t] = IdleReq]
    /\ UNCHANGED <<gpio_in, relay_pulses, last>>

\* the environment while requests are in flight
ConcSensorChange(pin, level) ==
    /\ gpio_in[pin] # level
    /\ gpio_in' = [gpio_in EXCEPT ![pin] = level]
    /\ UNCHANGED <<relay_pulses, last, req>>

ConcNames == {"LEFT", "RIGHT", "MIDDLE"}
ConcActions == {"OPEN", "CLOSE", "open"}

NextConc ==
    \/ \E pin \in SensorPins, level \in RawValues : ConcSensorChange(pin, level)
    \/ \E t \in Threads, n \in ConcNames, a \in ConcActions : ControlEnter(t, n, a)
    \/ \E t \in Threads, i \in BOOLEAN : ControlAct(t, i)
    \/ \E t \in Threads, n \in ConcNames : StatusCall(t, n)
    \/ \E t \in Threads : Return(t)

SpecConc == Init /\ [][NextConc]_vars

----------------------------------------------------------------------------
\* Vocabulary of the properties

Doors == {"LEFT", "RIGHT"}

\* the status a registered door's sensor level stands for
ExpectedStatus(level) ==
    CASE level = 0 -> "CLOSED"
      [] level = 1 -> "OPEN"
      [] OTHER -> "UNKNOWN"

\* the level now on the sensor of door d
Level(d) == gpio_in[GARAGE_SENSOR_MAPPING[d]]

\* the last operation was control_garage on its success path: a registered
\* door, a valid action, the door not in the requested state, no fault
ControlSuccessPath ==
    /\ last.op = "control_garage"
    /\ last.args.garage_name \in Doors
    /\ last.args.action \in {"OPEN", "CLOSE"}
    /\ ~(last.args.action = "OPEN" /\ Level(last.args.garage_name) = 1)
    /\ ~(last.args.action = "CLOSE" /\ Level(last.args.garage_name) = 0)
    /\ ~last.args.interrupted

\* the last operation was control_garage asking for the state the door is in
ControlAlreadyThere ==
    /\ last.op = "control_garage"
    /\ last.args.garage_name \in Doors
    /\ \/ last.args.action = "OPEN" /\ Level(last.args.garage_name) = 1
       \/ last.args.action = "CLOSE" /\ Level(last.args.garage_name) = 0

----------------------------------------------------------------------------
\* C1: on the success path of control_garage the door's relay is pulsed
\* exactly once (HIGH then LOW, before the call returns) and the call returns
\* error = false with the message naming the door, the action and the old
\* position.
C1_OnePulseOnSuccess ==
    ControlSuccessPath =>
        /\ PulsesOn(last.writes, RELAY_PIN_MAPPING[last.args.garage_name]) = 1
        /\ Len(last.writes) = 2
        /\ last.ret[1].error = FALSE
        /\ last.ret[1].message =
                <<"TRIGGERED ", last.args.garage_name, " GARAGE TO ", last.args.action,
                  ". OLD POSITION: ", ExpectedStatus(Level(last.args.garage_name))>>

----------------------------------------------------------------------------
\* C2: control(door, OPEN) while the sensor reads OPEN, and control(door,
\* CLOSE) while it reads CLOSED, drives no relay, leaves the pulse counters
\* and the sensor levels as they were, and returns error = true with the
\* "already open" / "already closed" message, however many calls came before.
C2_IdempotentReject ==
    [][ControlAlreadyThere' =>
            /\ last'.writes = <<>>
            /\ last'.sleeps = 0
            /\ relay_pulses' = relay_pulses
            /\ gpio_in' = gpio_in
            /\ last'.ret[1].error = TRUE
            /\ last'.ret[1].message =
                    IF last'.args.action = "OPEN"
                    THEN <<"Trying to open garage that is already open">>
                    ELSE <<"Trying to close garage that is already closed">>]_vars

\* a reject of CLOSE on a closed door, after an earlier operation
C2_Witness ==
    /\ ControlAlreadyThere
    /\ last.args.action = "CLOSE"
    /\ last.ret[1].error = TRUE
    /\ last.writes = <<>>

----------------------------------------------------------------------------
\* C3: in control_garage the first failing check wins: an unregistered door
\* gives "INVALID GARAGE_NAME" whatever the action, a registered door with an
\* action outside {OPEN, CLOSE} gives "INVALID ACTION"; both with error =
\* true, no sensor read and no relay driven.
C3_ValidationOrder ==
    last.op = "control_garage" =>
        /\ last.args.garage_name \notin Doors =>
                /\ last.ret[1] = [message |-> <<"INVALID GARAGE_NAME">>, error |-> TRUE]
                /\ last.reads = <<>> /\ last.writes = <<>> /\ last.sleeps = 0
        /\ (last.args.garage_name \in Doors /\ last.args.action \notin {"OPEN", "CLOSE"}) =>
                /\ last.ret[1] = [message |-> <<"INVALID ACTION">>, error |-> TRUE]
                /\ last.reads = <<>> /\ last.writes = <<>> /\ last.sleeps = 0

\* both checks fail at once and the door name is the one reported
C3_Witness ==
    /\ last.op = "control_garage"
    /\ last.args.garage_name \notin Doors
    /\ last.args.action \notin {"OPEN", "CLOSE"}
    /\ last.ret[1].message = <<"INVALID GARAGE_NAME">>

----------------------------------------------------------------------------
\* C4: get_garage_status classifies the level on the sensor at the time of
\* the call: 0 is CLOSED and 1 is OPEN with error = false, any other level is
\* UNKNOWN with error = true, an unregistered name is the invalid-name status
\* with error = true and no read; so error is true iff the status is UNKNOWN
\* or the invalid-name status.
C4_StatusClassification ==
    last.op = "get_garage_status" =>
        LET name == last.args.garage_name
            r == last.ret[1]
        IN  /\ name \in Doors =>
                    /\ last.reads = <<GARAGE_SENSOR_MAPPING[name]>>
                    /\ r.status = ExpectedStatus(Level(name))
                    /\ r.error = (Level(name) \notin {0, 1})
            /\ name \notin Doors =>
                    /\ last.reads = <<>>
                    /\ r.status = "INVALID GARAGE NAME"
                    /\ r.error = TRUE
            /\ r.error <=> r.status \in {"UNKNOWN", "INVALID GARAGE NAME"}

\* an anomalous level read as UNKNOWN
C4_Witness ==
    /\ last.op = "get_garage_status"
    /\ last.args.garage_name \in Doors
    /\ Level(last.args.garage_name) > 1
    /\ last.ret[1] = [status |-> "UNKNOWN", error |-> TRUE]

----------------------------------------------------------------------------
\* the records of the last status query, and whether it asked for all doors
StatusQuery == last.op \in {"get_garage_json_status", "GET /garage/status"}

Records ==
    IF last.op = "GET /garage/status"
    THEN JsonLoads(last.ret[1]["status"])
    ELSE JsonLoads(last.ret[1])

AllDoorsQuery ==
    \/ last.op = "get_garage_json_status" /\ last.args.garage_name \in {"ALL", "all"}
    \/ last.op = "GET /garage/status" /\ last.args.query \in {<<>>, <<"ALL">>, <<"all">>}

Unfiltered == last.op = "GET /garage/status" \/ last.args.limit_keys = NoLimit

\* C5: a status query for the all-doors name returns one record per
\* registered door in the order LEFT, RIGHT, on every call; unfiltered, the
\* record of a door whose sensor is 0 has return_code "0" and that of a door
\* whose sensor is 1 has return_code "2".
C5_AllDoorsOrder ==
    (StatusQuery /\ AllDoorsQuery) =>
        /\ Len(Records) = 2
        /\ Records[1]["garage_name"] = "LEFT"
        /\ Records[2]["garage_name"] = "RIGHT"
        /\ last.reads = <<GARAGE_SENSOR_MAPPING["LEFT"], GARAGE_SENSOR_MAPPING["RIGHT"]>>
        /\ Unfiltered =>
                \A i \in 1..2 :
                    /\ Level(Records[i]["garage_name"]) = 0 => Records[i]["return_code"] = "0"
                    /\ Level(Records[i]["garage_name"]) = 1 => Records[i]["return_code"] = "2"

\* LEFT closed and RIGHT open, reported in that order as "0" and "2"
C5_Witness ==
    /\ last.op = "get_garage_json_status"
    /\ last.args.garage_name = "ALL"
    /\ last.args.limit_keys = NoLimit
    /\ Level("LEFT") = 0 /\ Level("RIGHT") = 1
    /\ Records[1]["return_code"] = "0"
    /\ Records[2]["return_code"] = "2"

----------------------------------------------------------------------------
\* C6: in every monitoring record return_code is "0" iff the status is
\* CLOSED and "2" for every other status, and the record's status and error
\* are those get_garage_status gives for the record's door.
C6_ReturnCode ==
    (StatusQuery /\ Unfiltered) =>
        \A i \in DOMAIN Records :
            LET r == Records[i]
                st == get_garage_status(gpio_in, r["garage_name"])
            IN  /\ r["return_code"] \in {"0", "2"}
                /\ r["return_code"] = "0" <=> r["status"] = "CLOSED"
                /\ r["status"] = st.status
                /\ r["error"] = st.error

\* a record for an anomalous sensor: UNKNOWN, return_code "2"
C6_Witness ==
    /\ StatusQuery /\ Unfiltered
    /\ \E i \in DOMAIN Records :
            /\ Records[i]["status"] = "UNKNOWN"
            /\ Records[i]["return_code"] = "2"
            /\ Records[i]["error"] = TRUE

----------------------------------------------------------------------------
\* C7: GET /garage/status with garage_name=<NAME> answers with one element,
\* for the queried door; with garage_name=ALL or no parameter it answers with
\* one element per registered door.
C7_QueryHonoured ==
    last.op = "GET /garage/status" =>
        IF AllDoorsQuery
        THEN Len(Records) = Cardinality(Doors)
        ELSE /\ Len(Records) = 1
             /\ Records[1]["garage_name"] = last.args.query[1]

----------------------------------------------------------------------------
\* the envelope of the last POST and the message inside it
PostData == JsonLoads(last.args.body)
PostMessage == JsonLoads(PostData["Message"])

\* the last operation was a POST of a Notification that decodes at every level
WellFormedNotification ==
    /\ last.op = "POST /sns-callback"
    /\ JsonParses(last.args.body)
    /\ {"Type", "MessageId", "Message"} \subseteq DOMAIN PostData
    /\ PostData["Type"] = "Notification"
    /\ JsonParses(PostData["Message"])
    /\ {"type", "garage_name"} \subseteq DOMAIN PostMessage
    /\ PostMessage["type"] = "CONTROL" => "current_status" \in DOMAIN PostMessage

\* C8: every Notification that decodes (action type STATUS, CONTROL or other)
\* yields a reply envelope holding id = the first 4 characters of the MessageId
\* and a status field, and that envelope reaches the publishing step.
C8_ReplyEnvelope ==
    WellFormedNotification =>
        /\ Len(last.reply) = 1
        /\ {"id", "status"} \subseteq DOMAIN last.reply[1]
        /\ last.reply[1]["id"] = Slice(PostData["MessageId"], 4)

----------------------------------------------------------------------------
\* C9: a Notification with action type CONTROL calls control_garage(door
\* name, current_status) exactly once, and the reply's status is "success" iff
\* that call returned error = false, "fail" otherwise.
C9_ControlOnce ==
    (WellFormedNotification /\ PostMessage["type"] = "CONTROL") =>
        /\ last.controls = <<<<PostMessage["garage_name"], PostMessage["current_status"]>>>>
        /\ Len(last.reply) = 1
        /\ "status" \in DOMAIN last.reply[1]
        /\ last.reply[1]["status"] \in {"success", "fail"}

----------------------------------------------------------------------------
\* the last operation was a POST of a SubscriptionConfirmation with its URL
ConfirmationWithURL ==
    /\ last.op = "POST /sns-callback"
    /\ JsonParses(last.args.body)
    /\ {"Type", "SubscribeURL"} \subseteq DOMAIN PostData
    /\ PostData["Type"] = "SubscriptionConfirmation"

\* C10: a SubscriptionConfirmation envelope carrying a confirmation URL
\* results in exactly one fetch of that URL, nothing at the publishing step or
\* on the queue, no sensor read and no relay driven.
C10_ConfirmationFetch ==
    ConfirmationWithURL =>
        /\ last.fetched = <<PostData["SubscribeURL"]>>
        /\ last.reply = <<>>
        /\ last.published = <<>>
        /\ last.reads = <<>>
        /\ last.writes = <<>>
        /\ last.controls = <<>>

\* the confirmation URL fetched, the request acknowledged
C10_Witness ==
    /\ ConfirmationWithURL
    /\ last.fetched = <<PostData["SubscribeURL"]>>
    /\ last.ret = <<"OK\n">>

----------------------------------------------------------------------------
\* the last operation was a POST whose body does not decode at some level, or
\* whose top-level type is neither a SubscriptionConfirmation with its URL
\* nor a Notification
UndecodablePost ==
    /\ last.op = "POST /sns-callback"
    /\ \/ ~JsonParses(last.args.body)
       \/ "Type" \notin DOMAIN PostData
       \/ /\ PostData["Type"] = "Notification"
          /\ \/ ~({"MessageId", "Message"} \subseteq DOMAIN PostData)
             \/ ~JsonParses(PostData["Message"])
             \/ ~({"type", "garage_name"} \subseteq DOMAIN PostMessage)
             \/ PostMessage["type"] = "CONTROL" /\ "current_status" \notin DOMAIN PostMessage
       \/ /\ PostData["Type"] # "Notification"
          /\ ~(PostData["Type"] = "SubscriptionConfirmation"
               /\ "SubscribeURL" \in DOMAIN PostData)

\* C11: a POST whose body fails to decode at any level, or whose type is
\* neither SubscriptionConfirmation-with-URL nor Notification, drives no
\* relay, fetches no URL, produces no reply, and is still answered with the
\* acknowledgement "OK".
C11_DecodeFailureAcknowledged ==
    UndecodablePost =>
        /\ last.writes = <<>>
        /\ last.fetched = <<>>
        /\ last.reply = <<>>
        /\ last.published = <<>>
        /\ last.raised = ""
        /\ last.ret = <<"OK\n">>

----------------------------------------------------------------------------
\* the last operation was a POST of an envelope that decodes at every level:
\* a SubscriptionConfirmation with its URL, or a well-formed Notification
WellFormedPost == ConfirmationWithURL \/ WellFormedNotification

\* C12: every POST of a well-formed envelope is answered with "OK" whatever
\* the outcome of its processing; a failing confirmation fetch or publish does
\* not abort the request.
C12_AlwaysAcknowledged ==
    WellFormedPost =>
        /\ last.raised = ""
        /\ last.ret = <<"OK\n">>

----------------------------------------------------------------------------
\* C14: whenever control_garage returns error = true (invalid door, invalid
\* action, door already in the requested state, actuation failure) the
\* message has been printed before the call returns.
C14_ErrorLogged ==
    (last.op = "control_garage" /\ last.ret[1].error) =>
        \E i \in DOMAIN last.printed : last.printed[i] = last.ret[1].message

----------------------------------------------------------------------------
\* C17: a Notification whose action type is neither STATUS nor CONTROL reads
\* no sensor and drives no relay, and its reply is the payload
\* {status: "Invalid action passed", error: true}.
C17_InvalidActionReply ==
    (WellFormedNotification /\ PostMessage["type"] \notin {"STATUS", "CONTROL"}) =>
        /\ last.reads = <<>>
        /\ last.writes = <<>>
        /\ Len(last.reply) = 1
        /\ {"status", "error"} \subseteq DOMAIN last.reply[1]
        /\ last.reply[1]["status"] = "Invalid action passed"
        /\ last.reply[1]["error"] = TRUE

----------------------------------------------------------------------------
\* the last operation was control_garage reaching its try body: a registered
\* door, a valid action, the door not in the requested state
ControlActuationPath ==
    /\ last.op = "control_garage"
    /\ last.args.garage_name \in Doors
    /\ last.args.action \in {"OPEN", "CLOSE"}
    /\ ~(last.args.action = "OPEN" /\ Level(last.args.garage_name) = 1)
    /\ ~(last.args.action = "CLOSE" /\ Level(last.args.garage_name) = 0)

\* C18: a fault raised while the relay is being triggered does not leave
\* control_garage: the call returns error = true with the relay-failure
\* message, makes one attempt only, and prints the message.
C18_ActuationFailure ==
    (ControlActuationPath /\ last.args.interrupted) =>
        /\ last.raised = ""
        /\ last.ret[1] = [message |-> <<"AN ERROR OCCURED WHILE TRIGGERING THE RELAY">>,
                          error |-> TRUE]
        /\ last.sleeps = 1
        /\ Len(last.writes) <= 2
        /\ last.printed = <<<<"AN ERROR OCCURED WHILE TRIGGERING THE RELAY">>>>

\* a fault on the way to closing an open door, reported and printed
C18_Witness ==
    /\ ControlActuationPath
    /\ last.args.interrupted
    /\ last.args.action = "CLOSE"
    /\ Level(last.args.garage_name) = 1
    /\ last.ret[1].error = TRUE
    /\ Len(last.printed) = 1

----------------------------------------------------------------------------
\* C19: the guard blocks only OPEN on OPEN and CLOSE on CLOSED: for a
\* registered door whose sensor reads an anomalous level, control_garage with
\* either valid action takes the actuation path and returns error = false
\* with the old position UNKNOWN; the read error is not in the result.
C19_UnknownStillActuates ==
    (/\ last.op = "control_garage"
     /\ last.args.garage_name \in Doors
     /\ last.args.action \in {"OPEN", "CLOSE"}
     /\ Level(last.args.garage_name) \notin {0, 1}
     /\ ~last.args.interrupted) =>
        /\ last.reads = <<GARAGE_SENSOR_MAPPING[last.args.garage_name]>>
        /\ last.sleeps = 1
        /\ last.ret[1].error = FALSE
        /\ last.ret[1].message =
                <<"TRIGGERED ", last.args.garage_name, " GARAGE TO ", last.args.action,
                  ". OLD POSITION: ", "UNKNOWN">>
        /\ last.printed = <<>>

\* CLOSE asked of a door whose sensor is anomalous, and triggered
C19_Witness ==
    /\ last.op = "control_garage"
    /\ last.args.garage_name \in Doors
    /\ last.args.action = "CLOSE"
    /\ Level(last.args.garage_name) > 1
    /\ last.sleeps = 1
    /\ last.ret[1].error = FALSE

----------------------------------------------------------------------------
\* two distinct requests, both control of the same door with the same action,
\* both returned, each past its read before the other decided, on the same
\* level read
RacedPair(t, u) ==
    /\ t # u
    /\ req[t].pc = "done" /\ req[u].pc = "done"
    /\ req[t].op = "control" /\ req[u].op = "control"
    /\ req[t].garage_name \in Doors
    /\ req[u].garage_name = req[t].garage_name
    /\ req[u].action = req[t].action
    /\ req[u].level = req[t].level
    /\ req[t].raced /\ req[u].raced

\* C13: overlapping control requests for one door are not serialized: both
\* read the status before either acts, both pass the guard, and both pulse the
\* relay, so the door's relay has been pulsed twice for one requested
\* transition.
C13_BothPulse ==
    \A t, u \in Threads :
        (RacedPair(t, u) /\ ~req[t].error /\ ~req[u].error) =>
            relay_pulses[RELAY_PIN_MAPPING[req[t].garage_name]] >= 2

\* the race itself: both requests passed the guard on the same reading and
\* both returned TRIGGERED
C13_Witness ==
    \E t, u \in Threads :
        /\ RacedPair(t, u)
        /\ ~req[t].error /\ ~req[u].error
        /\ req[t].sleeps = 1 /\ req[u].sleeps = 1

----------------------------------------------------------------------------
\* the pins of a registered door
SensorPinOf(d) == IF d = "LEFT" THEN 25 ELSE 16
RelayPinOf(d) == IF d = "LEFT" THEN 27 ELSE 22

\* what control of registered door d returns, given the level read on d's
\* sensor and whether the trigger faulted
ExpectedControl(d, action, level, interrupted) ==
    IF action \notin {"OPEN", "CLOSE"}
    THEN [message |-> <<"INVALID ACTION">>, error |-> TRUE]
    ELSE IF action = "OPEN" /\ level = 1
    THEN [message |-> <<"Trying to open garage that is already open">>, error |-> TRUE]
    ELSE IF action = "CLOSE" /\ level = 0
    THEN [message |-> <<"Trying to close garage that is already closed">>, error |-> TRUE]
    ELSE IF interrupted
    THEN [message |-> <<"AN ERROR OCCURED WHILE TRIGGERING THE RELAY">>, error |-> TRUE]
    ELSE [message |-> <<"TRIGGERED ", d, " GARAGE TO ", action, ". OLD POSITION: ",
                        ExpectedStatus(level)>>,
          error |-> FALSE]

\* C15: a control or status request for door d reads only d's sensor and
\* drives only d's relay, leaves the other door's pulse count and every sensor
\* as they were, and its result is a function of its own arguments and of the
\* level it read on d's sensor, whatever the other request is doing.
C15_DoorsIndependent ==
    [][\A t \in Threads :
        LET r == req'[t]
            d == r.garage_name
        IN  (r.pc # req[t].pc /\ r.pc # "idle" /\ d \in Doors) =>
                /\ gpio_in' = gpio_in
                /\ \A o \in Doors \ {d} :
                        relay_pulses'[RelayPinOf(o)] = relay_pulses[RelayPinOf(o)]
                /\ \A i \in DOMAIN r.reads : r.reads[i] = SensorPinOf(d)
                /\ \A i \in DOMAIN r.writes : r.writes[i].pin = RelayPinOf(d)
                /\ r.pc = "read" => r.level = gpio_in[SensorPinOf(d)]
                /\ (r.pc = "done" /\ r.op = "status") =>
                        /\ r.reads = <<SensorPinOf(d)>>
                        /\ r.status = ExpectedStatus(gpio_in[SensorPinOf(d)])
                /\ (r.pc = "done" /\ r.op = "control") =>
                        [message |-> r.message, error |-> r.error] =
                            ExpectedControl(d, r.action, req[t].level, r.interrupted)]_vars

\* a request for LEFT returned while a request for RIGHT was between its read
\* and its guard
C15_Witness ==
    \E t, u \in Threads :
        /\ req[t].pc = "done" /\ req[t].op = "control"
        /\ req[t].garage_name = "LEFT" /\ ~req[t].error
        /\ req[u].pc = "read" /\ req[u].garage_name = "RIGHT"

----------------------------------------------------------------------------
\* the last operation was a status query
StatusOperation ==
    \/ last.op \in {"get_garage_status", "get_garage_json_status", "GET /garage/status"}
    \/ WellFormedNotification /\ PostMessage["type"] = "STATUS"

\* every status the last status query reported for a registered door is the
\* one the door's sensor stands for now
StatusFollowsSensor ==
    /\ (last.op = "get_garage_status" /\ last.args.garage_name \in Doors) =>
            last.ret[1].status = ExpectedStatus(Level(last.args.garage_name))
    /\ StatusQuery =>
            \A i \in DOMAIN Records :
                Records[i]["garage_name"] \in Doors =>
                    Records[i]["status"] = ExpectedStatus(Level(Records[i]["garage_name"]))

\* C16: get_garage_status, GET /garage/status and a STATUS Notification drive
\* no relay and change no sensor level, and the status they report is the one
\* the sensor stands for, so repeated queries on an unchanged sensor agree.
C16_StatusOnlyObserves ==
    [][StatusOperation' =>
            /\ relay_pulses' = relay_pulses
            /\ gpio_in' = gpio_in
            /\ last'.writes = <<>>
            /\ last'.sleeps = 0
            /\ last'.controls = <<>>
            /\ StatusFollowsSensor']_vars

\* a GET reporting an open RIGHT door, nothing driven
C16_Witness ==
    /\ last.op = "GET /garage/status"
    /\ Level("RIGHT") = 1
    /\ Records[2]["status"] = "OPEN"
    /\ last.writes = <<>>
    /\ relay_pulses = [p \in RelayPins |-> 0]

====
